---- MODULE Spec2Model ----
(***************************************************************************)
(* Model of the finance analysis engine of actual-budget-reporter          *)
(* (src/src/analyzer.py) as it is driven by                                *)
(* BudgetReporter.generate_weekly_report (src/src/reporter.py).            *)
(*                                                                         *)
(* Representation of Python values:                                        *)
(*   - a str is a tuple of one-character strings, "" is << >>;             *)
(*   - a value that may be None is a tuple of length <= 1: None is << >>   *)
(*     and the value v is <<v>> (Transaction.payee/category/notes,         *)
(*     previous_stats, monthly_budget);                                    *)
(*   - a dict is the tuple of its <<key, value>> items in insertion order; *)
(*   - a float that is the quotient of two integers is the pair            *)
(*     <<numerator, denominator>> with denominator > 0 and is compared by  *)
(*     cross multiplication.  For the magnitudes of this program (cents    *)
(*     far below 2^53) IEEE-754 division and the literals 0.30, 0.8, 1.0,  *)
(*     20 order exactly as the rationals do, including at the thresholds.  *)
(*   - an ISO date string "YYYY-MM-DD" is the 10-tuple of its characters,  *)
(*     digits as numbers and the separators as "-".                        *)
(***************************************************************************)
EXTENDS Integers, Sequences, FiniteSets, TLC

VARIABLES
    pc,                     \* position inside generate_weekly_report
    transactions,           \* client.get_transactions(start_str, end_str)
    prev_transactions,      \* client.get_transactions(previous week)
    compare_with_previous,  \* argument of generate_weekly_report
    monthly_budget,         \* BudgetReporter.monthly_budget
    current_stats,          \* local current_stats
    previous_stats,         \* local previous_stats
    anomalies,              \* local anomalies
    budget_health,          \* local budget_health
    reference_date,         \* argument of generate_weekly_report (a datetime)
    period,                 \* week_start, week_end, start_str, end_str
    prev_period,            \* prev_week_start, prev_week_end and their strings
    config,                 \* the settings BudgetReporter.__init__ collects
    faults,                 \* the calls to collaborators that fail in this run
    exception,              \* the exception caught by run, None if none
    summary,                \* local summary
    report,                 \* the dict generate_weekly_report returns
    sends,                  \* the calls of DiscordNotifier.send_report so far
    run_result,             \* the value BudgetReporter.run returns
    exit_code               \* the argument of sys.exit in main

runVars == <<reference_date, period, config, faults, exception, summary,
             report, sends, run_result, exit_code>>

vars == <<pc, transactions, prev_transactions, compare_with_previous,
          monthly_budget, current_stats, previous_stats, anomalies,
          budget_health, prev_period, runVars>>

----------------------------------------------------------------------------
(* Python values *)

PyNone == << >>

Some(v) == <<v>>

\* bool(v) for a value that may be None, a str or a dict
Truthy(v) == v # PyNone /\ v[1] # << >>

\* the Python expression  v or d
Or(v, d) == IF Truthy(v) THEN v ELSE d

Range(s) == {s[i] : i \in 1..Len(s)}

Abs(n) == IF n < 0 THEN -n ELSE n

Max(a, b) == IF a >= b THEN a ELSE b

\* int / int (true division), kept exact
Div(n, d) == <<n, d>>

FracOfInt(n) == <<n, 1>>

FracLT(a, b) == a[1] * b[2] < b[1] * a[2]

FracGT(a, b) == FracLT(b, a)

FracEQ(a, b) == a[1] * b[2] = b[1] * a[2]

FracAbs(a) == <<Abs(a[1]), a[2]>>

\* 1 + a
FracAddOne(a) == <<a[2] + a[1], a[2]>>

RECURSIVE SumSeq(_)
SumSeq(s) == IF s = << >> THEN 0 ELSE s[1] + SumSeq(Tail(s))

----------------------------------------------------------------------------
(* str *)

UpperChars == <<"A","B","C","D","E","F","G","H","I","J","K","L","M",
                "N","O","P","Q","R","S","T","U","V","W","X","Y","Z">>

LowerChars == <<"a","b","c","d","e","f","g","h","i","j","k","l","m",
                "n","o","p","q","r","s","t","u","v","w","x","y","z">>

LowerChar(c) ==
    IF \E i \in 1..26 : UpperChars[i] = c
    THEN LowerChars[CHOOSE i \in 1..26 : UpperChars[i] = c]
    ELSE c

\* str.lower()
Lower(s) == [i \in 1..Len(s) |-> LowerChar(s[i])]

\* the Python expression  needle in s
Contains(needle, s) ==
    \E i \in 1..(Len(s) - Len(needle) + 1) :
        \A k \in 1..Len(needle) : s[i + k - 1] = needle[k]

TRANSFER_KEYWORD == <<"t","r","a","n","s","f","e","r">>

UNCATEGORIZED == <<"U","n","c","a","t","e","g","o","r","i","z","e","d">>

\* the label of the uncategorized bucket (three CJK characters in the source)
UNCATEGORIZED_LABEL == <<"U+672A","U+5206","U+7C7B">>

----------------------------------------------------------------------------
(* datetime *)

\* datetime.strptime(s, "%Y-%m-%d")
strptime(s) ==
    [year  |-> s[1] * 1000 + s[2] * 100 + s[3] * 10 + s[4],
     month |-> s[6] * 10 + s[7],
     day   |-> s[9] * 10 + s[10]]

\* datetime.strftime("%Y-%m-%d")
strftime(dt) ==
    <<dt.year \div 1000, (dt.year \div 100) % 10, (dt.year \div 10) % 10,
      dt.year % 10, "-", dt.month \div 10, dt.month % 10, "-",
      dt.day \div 10, dt.day % 10>>

IsLeap(y) == y % 4 = 0 /\ (y % 100 # 0 \/ y % 400 = 0)

DaysInMonth(y, m) ==
    IF m = 2 THEN (IF IsLeap(y) THEN 29 ELSE 28)
    ELSE IF m \in {4, 6, 9, 11} THEN 30 ELSE 31

RECURSIVE DaysBeforeMonth(_, _)
DaysBeforeMonth(y, m) ==
    IF m = 1 THEN 0 ELSE DaysBeforeMonth(y, m - 1) + DaysInMonth(y, m - 1)

\* datetime.toordinal(): the proleptic Gregorian day number
toordinal(dt) ==
    LET y == dt.year - 1
    IN  y * 365 + y \div 4 - y \div 100 + y \div 400
        + DaysBeforeMonth(dt.year, dt.month) + dt.day

\* min(dates) and max(dates) on datetime objects
MinDate(dates) ==
    CHOOSE d \in Range(dates) :
        \A e \in Range(dates) : toordinal(d) <= toordinal(e)

MaxDate(dates) ==
    CHOOSE d \in Range(dates) :
        \A e \in Range(dates) : toordinal(d) >= toordinal(e)

\* datetime.weekday(): Monday is 0, Sunday is 6
weekday(dt) == (toordinal(dt) + 6) % 7

IsValidDate(dt) ==
    /\ dt.year >= 1
    /\ dt.month \in 1..12
    /\ dt.day \in 1..DaysInMonth(dt.year, dt.month)

\* datetime.fromordinal(n) for a day within a year of dt
FromOrdinalNear(n, dt) ==
    CHOOSE d \in [year : (dt.year - 1)..(dt.year + 1), month : 1..12,
                  day : 1..31] :
        IsValidDate(d) /\ toordinal(d) = n

\* dt - timedelta(days=n)
MinusDays(dt, n) ==
    IF n = 0 THEN dt ELSE FromOrdinalNear(toordinal(dt) - n, dt)

\* (a - b).days
DaysBetween(a, b) == toordinal(a) - toordinal(b)

----------------------------------------------------------------------------
(* list and dict *)

\* sorted(s, key=..., reverse=True) given the keys of s as fractions:
\* the stable descending order, as the tuple of the indices of s
SortedDescIndices(keys) ==
    LET n == Len(keys)
        Before(j, i) == \/ FracGT(keys[j], keys[i])
                        \/ (FracEQ(keys[j], keys[i]) /\ j < i)
        Rank(i) == Cardinality({j \in 1..n : Before(j, i)}) + 1
    IN  [r \in 1..n |-> CHOOSE i \in 1..n : Rank(i) = r]

SortedDesc(s, keys) ==
    LET p == SortedDescIndices(keys)
    IN  [r \in 1..Len(s) |-> s[p[r]]]

\* s[:n]
Take(s, n) == SubSeq(s, 1, IF Len(s) < n THEN Len(s) ELSE n)

DictHas(d, k) == \E i \in 1..Len(d) : d[i][1] = k

\* d.get(k, default)
DictGet(d, k, default) ==
    IF DictHas(d, k)
    THEN d[CHOOSE i \in 1..Len(d) : d[i][1] = k][2]
    ELSE default

\* d[k] += n on a defaultdict(int)
DictAdd(d, k, n) ==
    IF DictHas(d, k)
    THEN [i \in 1..Len(d) |-> IF d[i][1] = k THEN <<k, d[i][2] + n>> ELSE d[i]]
    ELSE Append(d, <<k, n>>)

\* d.values()
DictValues(d) == [i \in 1..Len(d) |-> d[i][2]]

----------------------------------------------------------------------------
(* FinanceAnalyzer: thresholds *)

\* 0.30 and -0.30 as fractions
SPIKE_THRESHOLD == <<30, 100>>

DROP_THRESHOLD == <<-30, 100>>

LARGE_TRANSACTION_THRESHOLD == 10000

UNCATEGORIZED_THRESHOLD == 5

----------------------------------------------------------------------------
(* FinanceAnalyzer.calculate_weekly_stats *)

\* IsTransfer without the .lower() calls
IsTransfer_CaseSensitive(t) ==
    \/ t.is_transfer
    \/ Contains(TRANSFER_KEYWORD, Or(t.payee, Some(<< >>))[1])
    \/ Contains(TRANSFER_KEYWORD, Or(t.category, Some(<< >>))[1])

\* the two conditions under which the filtering loop skips t
IsTransfer(t) ==
    \/ t.is_transfer
    \/ LET payee_lower    == Lower(Or(t.payee, Some(<< >>))[1])
           category_lower == Lower(Or(t.category, Some(<< >>))[1])
       IN  \/ Contains(TRANSFER_KEYWORD, payee_lower)
           \/ Contains(TRANSFER_KEYWORD, category_lower)

\* valid_txns
ValidTxns(txns) == SelectSeq(txns, LAMBDA t : ~IsTransfer(t))

\* the record returned when valid_txns is empty
EmptyStats ==
    [week_start |-> << >>,
     week_end |-> << >>,
     total_income |-> 0,
     total_expense |-> 0,
     net_change |-> 0,
     category_breakdown |-> << >>,
     top_expenses |-> << >>,
     top_transactions |-> << >>,
     top_income_transactions |-> << >>,
     uncategorized_count |-> 0,
     large_transactions |-> << >>,
     simplified_transactions |-> << >>,
     daily_average |-> 0]

\* dates
Dates(valid) == [i \in 1..Len(valid) |-> strptime(valid[i].date)]

\* WeekStart taken from the first transaction instead of the earliest
WeekStart_FirstListed(valid) == strftime(Dates(valid)[1])

WeekStart(valid) == strftime(MinDate(Dates(valid)))

WeekEnd(valid) == strftime(MaxDate(Dates(valid)))

TotalIncome(valid) ==
    SumSeq([i \in 1..Len(valid) |->
              IF valid[i].amount > 0 THEN valid[i].amount ELSE 0])

TotalExpense(valid) ==
    Abs(SumSeq([i \in 1..Len(valid) |->
                  IF valid[i].amount < 0 THEN valid[i].amount ELSE 0]))

\* the test that sends an expense to the uncategorized bucket
IsUncategorized(t) == ~Truthy(t.category) \/ t.category = Some(UNCATEGORIZED)

CatName(t) == IF IsUncategorized(t) THEN UNCATEGORIZED_LABEL ELSE t.category[1]

\* CategoryTotalsUpTo without the test  t.amount < 0
RECURSIVE CategoryTotalsUpTo_AnySign(_, _)
CategoryTotalsUpTo_AnySign(valid, n) ==
    IF n = 0 THEN << >>
    ELSE DictAdd(CategoryTotalsUpTo_AnySign(valid, n - 1),
                 CatName(valid[n]), Abs(valid[n].amount))

\* category_totals after the loop has handled the first n transactions
RECURSIVE CategoryTotalsUpTo(_, _)
CategoryTotalsUpTo(valid, n) ==
    IF n = 0 THEN << >>
    ELSE LET d == CategoryTotalsUpTo(valid, n - 1)
             t == valid[n]
         IN  IF t.amount < 0
             THEN DictAdd(d, CatName(t), Abs(t.amount))
             ELSE d

CategoryTotals(valid) == CategoryTotalsUpTo(valid, Len(valid))

\* UncategorizedCount with the counter outside the test  t.amount < 0
UncategorizedCount_AnySign(valid) == Len(SelectSeq(valid, IsUncategorized))

UncategorizedCount(valid) ==
    Len(SelectSeq(valid, LAMBDA t : t.amount < 0 /\ IsUncategorized(t)))

SimplifiedTransactions(valid) ==
    [i \in 1..Len(valid) |->
        [date |-> valid[i].date,
         payee |-> valid[i].payee,
         amount |-> Div(valid[i].amount, 100),
         category |-> Or(valid[i].category, Some(UNCATEGORIZED_LABEL)),
         notes |-> valid[i].notes]]

\* sorted_categories[:5]
TopExpenses(category_totals) ==
    Take(SortedDesc(category_totals,
                    [i \in 1..Len(category_totals) |->
                        FracOfInt(category_totals[i][2])]), 5)

\* IsLarge with > in place of >=
IsLarge_Strict(t) == Abs(t.amount) > LARGE_TRANSACTION_THRESHOLD

IsLarge(t) == Abs(t.amount) >= LARGE_TRANSACTION_THRESHOLD

LargeTransactions(valid) ==
    LET large == SelectSeq(valid, IsLarge)
    IN  [i \in 1..Len(large) |->
            [date |-> large[i].date,
             payee |-> large[i].payee,
             amount |-> Div(Abs(large[i].amount), 100),
             category |-> Or(large[i].category, Some(UNCATEGORIZED_LABEL)),
             notes |-> large[i].notes]]

\* DaysCount without the + 1
DaysCount_Exclusive(valid) ==
    DaysBetween(MaxDate(Dates(valid)), MinDate(Dates(valid)))

DaysCount(valid) ==
    DaysBetween(MaxDate(Dates(valid)), MinDate(Dates(valid))) + 1

DailyAverage(valid) == TotalExpense(valid) \div Max(DaysCount(valid), 1)

\* all_expenses
AllExpenses(simplified) ==
    LET expenses == SelectSeq(simplified,
                              LAMBDA t : FracLT(t.amount, FracOfInt(0)))
    IN  SortedDesc(expenses,
                   [i \in 1..Len(expenses) |-> FracAbs(expenses[i].amount)])

ExceedsTwentyDollars(t) == FracGT(FracAbs(t.amount), FracOfInt(20))

\* TopTransactions falling back only when nothing exceeds $20
TopTransactions_FallbackWhenEmpty(simplified) ==
    LET all_expenses == AllExpenses(simplified)
        top_transactions == SelectSeq(all_expenses, ExceedsTwentyDollars)
    IN  IF Len(top_transactions) < 1
        THEN Take(all_expenses, 5)
        ELSE top_transactions

TopTransactions(simplified) ==
    LET all_expenses == AllExpenses(simplified)
        top_transactions == SelectSeq(all_expenses, ExceedsTwentyDollars)
    IN  IF Len(top_transactions) < 5
        THEN Take(all_expenses, 5)
        ELSE top_transactions

TopIncomeTransactions(simplified) ==
    LET incomes == SelectSeq(simplified,
                             LAMBDA t : FracGT(t.amount, FracOfInt(0)))
    IN  Take(SortedDesc(incomes,
                        [i \in 1..Len(incomes) |-> FracAbs(incomes[i].amount)]),
             5)

calculate_weekly_stats(txns) ==
    LET valid_txns == ValidTxns(txns)
    IN  IF valid_txns = << >>
        THEN EmptyStats
        ELSE LET total_income == TotalIncome(valid_txns)
                 total_expense == TotalExpense(valid_txns)
                 category_totals == CategoryTotals(valid_txns)
                 simplified_transactions == SimplifiedTransactions(valid_txns)
             IN  [week_start |-> WeekStart(valid_txns),
                  week_end |-> WeekEnd(valid_txns),
                  total_income |-> total_income,
                  total_expense |-> total_expense,
                  net_change |-> total_income - total_expense,
                  category_breakdown |-> category_totals,
                  top_expenses |-> TopExpenses(category_totals),
                  top_transactions |-> TopTransactions(simplified_transactions),
                  top_income_transactions |->
                      TopIncomeTransactions(simplified_transactions),
                  uncategorized_count |-> UncategorizedCount(valid_txns),
                  large_transactions |-> LargeTransactions(valid_txns),
                  simplified_transactions |-> simplified_transactions,
                  daily_average |-> DailyAverage(valid_txns)]

----------------------------------------------------------------------------
(* FinanceAnalyzer.detect_anomalies                                        *)
(* An Anomaly is modelled by its type, severity and data; its description  *)
(* is display text formatted from the same values.                         *)

\* UncategorizedAnomalies with >= in place of >
UncategorizedAnomalies_Inclusive(cur) ==
    IF cur.uncategorized_count >= UNCATEGORIZED_THRESHOLD
    THEN <<[type |-> "uncategorized_cluster",
            severity |-> "medium",
            data |-> [count |-> cur.uncategorized_count]]>>
    ELSE << >>

\* rule 1
UncategorizedAnomalies(cur) ==
    IF cur.uncategorized_count > UNCATEGORIZED_THRESHOLD
    THEN <<[type |-> "uncategorized_cluster",
            severity |-> "medium",
            data |-> [count |-> cur.uncategorized_count]]>>
    ELSE << >>

\* rule 2
LargeTransactionAnomalies(cur) ==
    [i \in 1..Len(cur.large_transactions) |->
        [type |-> "large_transaction",
         severity |-> "low",
         data |-> cur.large_transactions[i]]]

\* change_ratio
ChangeRatio(cur, prev) ==
    Div(cur.total_expense - prev.total_expense, prev.total_expense)

\* SpendAnomalies with >= and <= at the thresholds
SpendAnomalies_Inclusive(cur, prev) ==
    IF prev.total_expense > 0
    THEN LET change_ratio == ChangeRatio(cur, prev)
             data == [ratio |-> change_ratio,
                      current |-> cur.total_expense,
                      previous |-> prev.total_expense]
         IN  IF ~FracLT(change_ratio, SPIKE_THRESHOLD)
             THEN <<[type |-> "spike", severity |-> "high", data |-> data]>>
             ELSE IF ~FracGT(change_ratio, DROP_THRESHOLD)
             THEN <<[type |-> "drop", severity |-> "low", data |-> data]>>
             ELSE << >>
    ELSE << >>

\* rule 3, inside  if previous_stats
SpendAnomalies(cur, prev) ==
    IF prev.total_expense > 0
    THEN LET change_ratio == ChangeRatio(cur, prev)
             data == [ratio |-> change_ratio,
                      current |-> cur.total_expense,
                      previous |-> prev.total_expense]
         IN  IF FracGT(change_ratio, SPIKE_THRESHOLD)
             THEN <<[type |-> "spike", severity |-> "high", data |-> data]>>
             ELSE IF FracLT(change_ratio, DROP_THRESHOLD)
             THEN <<[type |-> "drop", severity |-> "low", data |-> data]>>
             ELSE << >>
    ELSE << >>

\* IsCategorySpike without the test  prev_amount > 0
IsCategorySpike_NoPreviousTest(amount, prev_amount) ==
    LET factor == FracAddOne(SPIKE_THRESHOLD)
    IN  FracGT(FracOfInt(amount), <<prev_amount * factor[1], factor[2]>>)

\* the condition of rule 4 for one item of the current breakdown:
\* amount > prev_amount * (1 + SPIKE_THRESHOLD)
IsCategorySpike(amount, prev_amount) ==
    LET factor == FracAddOne(SPIKE_THRESHOLD)
    IN  /\ prev_amount > 0
        /\ FracGT(FracOfInt(amount), <<prev_amount * factor[1], factor[2]>>)

\* rule 4, inside  if previous_stats
RECURSIVE CategoryAnomaliesUpTo(_, _, _)
CategoryAnomaliesUpTo(cur, prev, n) ==
    IF n = 0 THEN << >>
    ELSE LET rest == CategoryAnomaliesUpTo(cur, prev, n - 1)
             cat == cur.category_breakdown[n][1]
             amount == cur.category_breakdown[n][2]
             prev_amount == DictGet(prev.category_breakdown, cat, 0)
         IN  IF IsCategorySpike(amount, prev_amount)
             THEN Append(rest, [type |-> "category_spike",
                                severity |-> "medium",
                                data |-> [category |-> cat,
                                          current |-> amount,
                                          previous |-> prev_amount]])
             ELSE rest

CategoryAnomalies(cur, prev) ==
    CategoryAnomaliesUpTo(cur, prev, Len(cur.category_breakdown))

\* previous is None or <<stats>>; a dataclass instance is always truthy
detect_anomalies(cur, previous) ==
    UncategorizedAnomalies(cur)
    \o LargeTransactionAnomalies(cur)
    \o (IF previous # PyNone
        THEN SpendAnomalies(cur, previous[1])
             \o CategoryAnomalies(cur, previous[1])
        ELSE << >>)

----------------------------------------------------------------------------
(* FinanceAnalyzer.calculate_budget_health *)

\* HealthRatio without the guard on total_budget
HealthRatio_Unguarded(projected_monthly, total_budget) ==
    Div(projected_monthly, total_budget)

\* health_ratio
HealthRatio(projected_monthly, total_budget) ==
    IF total_budget > 0
    THEN Div(projected_monthly, total_budget)
    ELSE FracOfInt(0)

\* HealthStatus with <= 0.8 and <= 1.0
HealthStatus_Inclusive(health_ratio) ==
    IF ~FracGT(health_ratio, <<8, 10>>) THEN "healthy"
    ELSE IF ~FracGT(health_ratio, <<10, 10>>) THEN "warning"
    ELSE "critical"

\* the status chain on health_ratio: < 0.8, < 1.0, else
HealthStatus(health_ratio) ==
    IF FracLT(health_ratio, <<8, 10>>) THEN "healthy"
    ELSE IF FracLT(health_ratio, <<10, 10>>) THEN "warning"
    ELSE "critical"

\* the message paired with each status (Chinese text in the source)
HealthMessage(status) ==
    CASE status = "healthy"  -> "budget on track"
      [] status = "warning"  -> "budget running fast"
      [] status = "critical" -> "overspend expected"

\* budget is None or <<dict>>
calculate_budget_health(cur, budget) ==
    IF ~Truthy(budget)
    THEN [status |-> "unknown", message |-> "no monthly budget set"]
    ELSE LET total_budget == SumSeq(DictValues(budget[1]))
             spent_so_far == cur.total_expense
             projected_monthly == spent_so_far * 4
             remaining == total_budget - projected_monthly
             health_ratio == HealthRatio(projected_monthly, total_budget)
             status == HealthStatus(health_ratio)
         IN  [status |-> status,
              message |-> HealthMessage(status),
              projected_monthly |-> projected_monthly,
              total_budget |-> total_budget,
              remaining |-> remaining,
              health_ratio |-> health_ratio]

----------------------------------------------------------------------------
(* Text.  A text the program formats is the tuple of its parts; a part is  *)
(* a tuple that starts with a word naming the literal text around the      *)
(* values that follow it.  The 2000-character cut of send_report is not    *)
(* represented: parts carry no length.                                     *)

\* f"{n/d:.0f}" for n >= 0: round to the nearest integer, ties to even
Format0f(f) ==
    LET q == f[1] \div f[2]
        r == f[1] % f[2]
    IN  IF 2 * r < f[2] THEN q
        ELSE IF 2 * r > f[2] THEN q + 1
        ELSE IF q % 2 = 0 THEN q ELSE q + 1

\* Anomaly.description, formatted from the type and the data of the anomaly
Description(a) == <<a.type, a.data>>

HighAnomalies(anoms) == SelectSeq(anoms, LAMBDA a : a.severity = "high")

----------------------------------------------------------------------------
(* GeminiSummarizer *)

\* _fallback_summary(stats, anomalies)
fallback_summary(stats, anoms) ==
    <<<<"expense", Format0f(Div(stats.total_expense, 100))>>>>
    \o (IF stats.total_income > 0
        THEN <<<<"income", Format0f(Div(stats.total_income, 100))>>>>
        ELSE << >>)
    \o (IF anoms # << >>
        THEN LET high_priority == HighAnomalies(anoms)
             IN  IF high_priority # << >>
                 THEN <<<<"attention", Description(high_priority[1])>>>>
                 ELSE <<<<"finances normal">>>>
        ELSE <<<<"no anomalies">>>>)

\* what the model answers when it is called without failing:
\* response.text.strip(), possibly empty
LLM_TEXT == <<<<"llm text">>>>

\* generate_weekly_summary without the except branch's fallback
generate_weekly_summary_NoFallback(has_client, llm, stats, anoms, health) ==
    IF ~has_client
    THEN fallback_summary(stats, anoms)
    ELSE IF llm = "raises" THEN << >>
    ELSE IF llm = "empty" THEN << >>
    ELSE LLM_TEXT

\* generate_weekly_summary(stats, anomalies, budget_health) of a summarizer
\* with or without a client; llm is the outcome of generate_content:
\* "raises", "empty" or "text".  The prompt only reaches the model.
generate_weekly_summary(has_client, llm, stats, anoms, health) ==
    IF ~has_client
    THEN fallback_summary(stats, anoms)
    ELSE IF llm = "raises" THEN fallback_summary(stats, anoms)
    ELSE IF llm = "empty" THEN << >>
    ELSE LLM_TEXT

----------------------------------------------------------------------------
(* DiscordNotifier *)

\* send_report returning True although the POST raised
send_report_IgnoresPostFailure(webhook_url, content, post_fails) ==
    IF ~Truthy(webhook_url)
    THEN [content |-> content, posted |-> FALSE, ok |-> FALSE]
    ELSE [content |-> content, posted |-> TRUE, ok |-> TRUE]

\* send_report(content): the record of the call, ok being its return value
\* and posted whether requests.post was called
send_report(webhook_url, content, post_fails) ==
    IF ~Truthy(webhook_url)
    THEN [content |-> content, posted |-> FALSE, ok |-> FALSE]
    ELSE [content |-> content, posted |-> TRUE, ok |-> ~post_fails]

\* the content send_weekly_report sends: the summary when there is one,
\* else the report assembled from the statistics
WeeklyReportContent(stats, anoms, text, health) ==
    IF text # << >>
    THEN text
    ELSE <<<<"fallback report", stats.week_start, stats.week_end,
             Format0f(Div(stats.total_income, 100)),
             Format0f(Div(stats.total_expense, 100)),
             Format0f(Div(stats.daily_average, 100)),
             stats.net_change,
             Take(stats.top_expenses, 5),
             health.status,
             Take(HighAnomalies(anoms), 5)>>>>

\* the content run sends from its except branch
ErrorContent(e) == <<<<"report generation failed", e>>>>

----------------------------------------------------------------------------
(* BudgetReporter.generate_weekly_report: the week range *)

\* the week range without the reset of a Sunday's seven days to zero
WeekRange_NoSundayReset(ref) ==
    LET days_since_sunday == weekday(ref) + 1
        week_end == MinusDays(ref, days_since_sunday)
        week_start == MinusDays(week_end, 6)
    IN  [week_start |-> week_start,
         week_end |-> week_end,
         start_str |-> strftime(week_start),
         end_str |-> strftime(week_end)]

\* week_end, week_start and their strings for a reference date
WeekRange(ref) ==
    LET since == weekday(ref) + 1
        days_since_sunday == IF since = 7 THEN 0 ELSE since
        week_end == MinusDays(ref, days_since_sunday)
        week_start == MinusDays(week_end, 6)
    IN  [week_start |-> week_start,
         week_end |-> week_end,
         start_str |-> strftime(week_start),
         end_str |-> strftime(week_end)]

\* prev_week_start, prev_week_end and the strings passed to get_transactions
PreviousRange(p) ==
    LET prev_week_start == MinusDays(p.week_start, 7)
        prev_week_end == MinusDays(p.week_end, 7)
    IN  [week_start |-> prev_week_start,
         week_end |-> prev_week_end,
         start_str |-> strftime(prev_week_start),
         end_str |-> strftime(prev_week_end)]

\* datetime.strptime raises ValueError on the date of a transaction that
\* survives the filter
DatesRaise(txns) ==
    \E i \in 1..Len(txns) :
        ~IsTransfer(txns[i]) /\ ~IsValidDate(strptime(txns[i].date))

----------------------------------------------------------------------------
(* Inputs: what the budgeting backend returns and what is configured *)

\* longest transaction list with free-text payees, categories and notes
MaxTxns == 3

\* longest current and previous list of the week-over-week comparison
MaxCmpTxns == 2

\* longest list of plain expenses and incomes
MaxTopTxns == 6

\* longest list analysed against a configured budget
MaxBudgetTxns == 2

\* longest list of uncategorized expenses
MaxClusterTxns == 6

S_Shop == <<"S","h","o","p">>

S_Transit == <<"T","r","a","n","s","i","t">>

S_TRANSFER == <<"T","R","A","N","S","F","E","R">>

S_BankTransfers == <<"B","a","n","k"," ","T","r","a","n","s","f","e","r","s">>

S_transfer == <<"t","r","a","n","s","f","e","r">>

S_Food == <<"F","o","o","d">>

S_Rent == <<"R","e","n","t">>

S_Checking == <<"C","h","e","c","k","i","n","g">>

D_0227 == <<2,0,2,4,"-",0,2,"-",2,7>>

D_0229 == <<2,0,2,4,"-",0,2,"-",2,9>>

D_0302 == <<2,0,2,4,"-",0,3,"-",0,2>>

\* a Transaction as ActualClient.get_transactions builds it:
\* payee and category are str (never None there), notes may be None
Txn(date, amount, payee, category, notes, is_transfer) ==
    [id |-> 0, date |-> date, amount |-> amount, payee |-> payee,
     category |-> category, account |-> S_Checking, notes |-> notes,
     is_transfer |-> is_transfer]

\* transactions with free text: transfers by flag, by payee and by category
\* in several letter cases, the word in the notes only, the ways of being
\* uncategorized, on three dates
TextPool ==
    {Txn(D_0229, -1500, Some(S_Shop), Some(S_Food), PyNone, FALSE),
     Txn(D_0227, -5000, Some(S_Shop), Some(S_Food), PyNone, TRUE),
     Txn(D_0302, 20000, Some(S_TRANSFER), PyNone, PyNone, FALSE),
     Txn(D_0229, -700, Some(S_Shop), Some(S_BankTransfers), PyNone, FALSE),
     Txn(D_0229, -12000, Some(S_Transit), PyNone, Some(S_transfer), FALSE),
     Txn(D_0302, 30000, Some(S_Shop), PyNone, PyNone, FALSE),
     Txn(D_0227, -300, Some(<< >>), Some(UNCATEGORIZED), PyNone, FALSE),
     Txn(D_0302, -50, Some(S_Shop), Some(<< >>), PyNone, FALSE)}

\* expenses of two categories whose sums meet the 30% thresholds
CmpPool ==
    {Txn(D_0229, -100, Some(S_Shop), Some(S_Food), PyNone, FALSE),
     Txn(D_0229, -30, Some(S_Shop), Some(S_Food), PyNone, FALSE),
     Txn(D_0229, -31, Some(S_Shop), Some(S_Food), PyNone, FALSE),
     Txn(D_0229, -70, Some(S_Shop), Some(S_Rent), PyNone, FALSE),
     Txn(D_0229, -100, Some(S_Shop), Some(S_Rent), PyNone, FALSE)}

\* amounts around the $20 and $100 thresholds
TopPool ==
    {Txn(D_0229, -2500, Some(S_Shop), PyNone, PyNone, FALSE),
     Txn(D_0229, -2000, Some(S_Shop), Some(S_Food), PyNone, FALSE),
     Txn(D_0302, -10000, Some(S_Shop), Some(S_Food), PyNone, FALSE),
     Txn(D_0229, 9999, Some(S_Shop), PyNone, PyNone, FALSE)}

\* amounts whose fourfold sums meet 0.8 and 1.0 of the budgets below
BudgetPool ==
    {Txn(D_0229, -20, Some(S_Shop), Some(S_Food), PyNone, FALSE),
     Txn(D_0229, -5, Some(S_Shop), Some(S_Food), PyNone, FALSE),
     Txn(D_0229, -4, Some(S_Shop), Some(S_Rent), PyNone, FALSE),
     Txn(D_0229, 7, Some(S_Shop), PyNone, PyNone, FALSE)}

\* uncategorized expenses, one of them large
ClusterPool ==
    {Txn(D_0229, -10000, Some(S_Shop), PyNone, PyNone, FALSE),
     Txn(D_0229, -100, Some(S_Shop), Some(<< >>), PyNone, FALSE)}

BudgetValues == {0, 40, 60, -40}

\* MONTHLY_BUDGET: unset, {}, one category or two
Budgets ==
    {PyNone, Some(<< >>)}
    \cup {Some(<<<<S_Food, v>>>>) : v \in BudgetValues}
    \cup {Some(<<<<S_Food, v>>, <<S_Rent, w>>>>) :
              v \in BudgetValues, w \in BudgetValues}

\* longest list the backend returns in a whole run
MaxRunTxns == 1

D_0220 == <<2,0,2,4,"-",0,2,"-",2,0>>

\* a date the backend can hold that is no calendar day
D_0230 == <<2,0,2,4,"-",0,2,"-",3,0>>

\* the current week of a whole run: a large expense and a row with a bad date
RunPool ==
    {Txn(D_0229, -15050, Some(S_Shop), Some(S_Food), PyNone, FALSE),
     Txn(D_0230, -100, Some(S_Shop), Some(S_Food), PyNone, FALSE)}

\* the previous week of a whole run
RunPrevPool ==
    {Txn(D_0220, -100, Some(S_Shop), Some(S_Food), PyNone, FALSE)}

\* Sunday 3 March 2024; its week is 26 February to 3 March
DefaultReferenceDate == [year |-> 2024, month |-> 3, day |-> 3]

\* three weeks of reference dates across the leap day
ReferenceDates ==
    {[year |-> 2024, month |-> 2, day |-> 26],
     [year |-> 2024, month |-> 2, day |-> 27],
     [year |-> 2024, month |-> 2, day |-> 28],
     [year |-> 2024, month |-> 2, day |-> 29],
     [year |-> 2024, month |-> 3, day |-> 1],
     [year |-> 2024, month |-> 3, day |-> 2],
     [year |-> 2024, month |-> 3, day |-> 3],
     [year |-> 2024, month |-> 3, day |-> 4],
     [year |-> 2024, month |-> 3, day |-> 5],
     [year |-> 2024, month |-> 3, day |-> 6],
     [year |-> 2024, month |-> 3, day |-> 7],
     [year |-> 2024, month |-> 3, day |-> 8],
     [year |-> 2024, month |-> 3, day |-> 9],
     [year |-> 2024, month |-> 3, day |-> 10],
     [year |-> 2024, month |-> 3, day |-> 11],
     [year |-> 2024, month |-> 3, day |-> 12],
     [year |-> 2024, month |-> 3, day |-> 13],
     [year |-> 2024, month |-> 3, day |-> 14],
     [year |-> 2024, month |-> 3, day |-> 15],
     [year |-> 2024, month |-> 3, day |-> 16],
     [year |-> 2024, month |-> 3, day |-> 17]}

S_Set == <<"s","e","t">>

\* a setting is unset or set
Settings == {PyNone, Some(S_Set)}

Configs ==
    [actual_url : Settings, actual_password : Settings,
     gemini_api_key : Settings, discord_webhook : Settings]

AllSet ==
    [actual_url |-> Some(S_Set), actual_password |-> Some(S_Set),
     gemini_api_key |-> Some(S_Set), discord_webhook |-> Some(S_Set)]

\* the calls that can fail: ActualClient.login, get_transactions for the
\* current and for the previous week, genai.Client, generate_content
\* (raising, or answering with empty text), requests.post of the report and
\* of the error message
FaultNames ==
    {"login", "fetch", "fetch_previous", "gemini_init", "llm_raises",
     "llm_empty", "post_report", "post_error"}

\* no failure, one failure, or one failure and a failing error message
FaultSets ==
    {{}} \cup {{f} : f \in FaultNames}
         \cup {{f, "post_error"} : f \in FaultNames}

\* the lists of at most n transactions of a pool, ids by position
TxnLists(pool, n) ==
    UNION {{[i \in 1..k |-> [f[i] EXCEPT !.id = i]] : f \in [1..k -> pool]} :
           k \in 0..n}

----------------------------------------------------------------------------
(* BudgetReporter.generate_weekly_report, from the fetched transactions on *)

\* the week range of the default reference date
DefaultPeriod == WeekRange(DefaultReferenceDate)

\* nothing assigned yet
InitUnassigned ==
    /\ current_stats = PyNone
    /\ previous_stats = PyNone
    /\ anomalies = PyNone
    /\ budget_health = PyNone
    /\ prev_period = PyNone
    /\ exception = PyNone
    /\ summary = PyNone
    /\ report = PyNone
    /\ sends = << >>
    /\ run_result = PyNone
    /\ exit_code = PyNone

\* the analysis of fetched transactions: every setting set, no failing call
InitLocals ==
    /\ pc = "analyze_current"
    /\ InitUnassigned
    /\ reference_date = DefaultReferenceDate
    /\ period = DefaultPeriod
    /\ config = AllSet
    /\ faults = {}

InitText ==
    /\ transactions \in TxnLists(TextPool, MaxTxns)
    /\ prev_transactions = << >>
    /\ compare_with_previous = TRUE
    /\ monthly_budget = PyNone

InitCmp ==
    /\ transactions \in TxnLists(CmpPool, MaxCmpTxns)
    /\ compare_with_previous \in BOOLEAN
    /\ prev_transactions \in
           IF compare_with_previous
           THEN TxnLists(CmpPool, MaxCmpTxns) ELSE {<< >>}
    /\ monthly_budget = PyNone

InitTop ==
    /\ transactions \in TxnLists(TopPool, MaxTopTxns)
    /\ prev_transactions = << >>
    /\ compare_with_previous = FALSE
    /\ monthly_budget = PyNone

InitBudget ==
    /\ transactions \in TxnLists(BudgetPool, MaxBudgetTxns)
    /\ prev_transactions = << >>
    /\ compare_with_previous = FALSE
    /\ monthly_budget \in Budgets

InitCluster ==
    /\ transactions \in TxnLists(ClusterPool, MaxClusterTxns)
    /\ prev_transactions \in TxnLists(ClusterPool, 1)
    /\ compare_with_previous = TRUE
    /\ monthly_budget = PyNone

Init ==
    /\ InitLocals
    /\ (InitText \/ InitCmp \/ InitTop \/ InitBudget \/ InitCluster)

\* analyzer = FinanceAnalyzer(transactions);
\* current_stats = analyzer.calculate_weekly_stats()
AnalyzeCurrent ==
    /\ pc = "analyze_current"
    /\ IF DatesRaise(transactions)
       THEN /\ exception' = Some("ValueError")
            /\ pc' = "except"
            /\ UNCHANGED current_stats
       ELSE /\ current_stats' = calculate_weekly_stats(transactions)
            /\ pc' = "analyze_previous"
            /\ UNCHANGED exception
    /\ UNCHANGED <<transactions, prev_transactions, compare_with_previous,
                   monthly_budget, previous_stats, anomalies, budget_health,
                   prev_period, reference_date, period, config, faults,
                   summary, report, sends, run_result, exit_code>>

\* previous_stats = None; if compare_with_previous: the previous week is
\* fetched and previous_stats =
\* FinanceAnalyzer(prev_transactions).calculate_weekly_stats()
AnalyzePrevious ==
    /\ pc = "analyze_previous"
    /\ IF ~compare_with_previous
       THEN /\ previous_stats' = PyNone
            /\ pc' = "detect"
            /\ UNCHANGED <<prev_period, exception>>
       ELSE /\ prev_period' = Some(PreviousRange(period))
            /\ IF "fetch_previous" \in faults
               THEN /\ exception' = Some("backend error")
                    /\ pc' = "except"
                    /\ UNCHANGED previous_stats
               ELSE IF DatesRaise(prev_transactions)
               THEN /\ exception' = Some("ValueError")
                    /\ pc' = "except"
                    /\ UNCHANGED previous_stats
               ELSE /\ previous_stats' =
                           Some(calculate_weekly_stats(prev_transactions))
                    /\ pc' = "detect"
                    /\ UNCHANGED exception
    /\ UNCHANGED <<transactions, prev_transactions, compare_with_previous,
                   monthly_budget, current_stats, anomalies, budget_health,
                   reference_date, period, config, faults, summary, report,
                   sends, run_result, exit_code>>

\* anomalies = analyzer.detect_anomalies(current_stats, previous_stats)
DetectAnomalies ==
    /\ pc = "detect"
    /\ anomalies' = detect_anomalies(current_stats, previous_stats)
    /\ pc' = "budget"
    /\ UNCHANGED <<transactions, prev_transactions, compare_with_previous,
                   monthly_budget, current_stats, previous_stats,
                   budget_health, prev_period, runVars>>

\* budget_health = analyzer.calculate_budget_health(current_stats,
\*                                                  self.monthly_budget)
BudgetHealth ==
    /\ pc = "budget"
    /\ budget_health' = calculate_budget_health(current_stats, monthly_budget)
    /\ pc' = "done"
    /\ UNCHANGED <<transactions, prev_transactions, compare_with_previous,
                   monthly_budget, current_stats, previous_stats, anomalies,
                   prev_period, runVars>>

Next ==
    \/ AnalyzeCurrent
    \/ AnalyzePrevious
    \/ DetectAnomalies
    \/ BudgetHealth

Spec == Init /\ [][Next]_vars

-----------------------------------------------------------------------------
(* BudgetReporter.run and main: the whole pipeline *)

\* a run with every setting set and no failing call, on each reference date
InitRunWeek ==
    /\ reference_date \in ReferenceDates
    /\ config = AllSet
    /\ faults = {}
    /\ transactions = << >>
    /\ prev_transactions = << >>
    /\ compare_with_previous \in BOOLEAN

\* a run on the default reference date under each configuration and failure
InitRunFaults ==
    /\ reference_date = DefaultReferenceDate
    /\ config \in Configs
    /\ faults \in FaultSets
    /\ transactions \in TxnLists(RunPool, MaxRunTxns)
    /\ prev_transactions \in TxnLists(RunPrevPool, 1)
    /\ compare_with_previous = TRUE

InitRun ==
    /\ pc = "run"
    /\ InitUnassigned
    /\ period = PyNone
    /\ monthly_budget = PyNone
    /\ (InitRunWeek \/ InitRunFaults)

\* week_end, week_start, start_str, end_str
ComputeWeekRange ==
    /\ pc = "run"
    /\ period' = WeekRange(reference_date)
    /\ pc' = "credentials"
    /\ UNCHANGED <<transactions, prev_transactions, compare_with_previous,
                   monthly_budget, current_stats, previous_stats, anomalies,
                   budget_health, prev_period, reference_date, config, faults,
                   exception, summary, report, sends, run_result, exit_code>>

\* if not self.actual_url or not self.actual_password: return {}
CheckCredentials ==
    /\ pc = "credentials"
    /\ IF ~Truthy(config.actual_url) \/ ~Truthy(config.actual_password)
       THEN /\ report' = Some(<< >>)
            /\ pc' = "report_ready"
       ELSE /\ pc' = "login"
            /\ UNCHANGED report
    /\ UNCHANGED <<transactions, prev_transactions, compare_with_previous,
                   monthly_budget, current_stats, previous_stats, anomalies,
                   budget_health, prev_period, reference_date, period, config,
                   faults, exception, summary, sends, run_result, exit_code>>

\* if not client.login(): raise RuntimeError
Login ==
    /\ pc = "login"
    /\ IF "login" \in faults
       THEN /\ exception' = Some("RuntimeError")
            /\ pc' = "except"
       ELSE /\ pc' = "fetch"
            /\ UNCHANGED exception
    /\ UNCHANGED <<transactions, prev_transactions, compare_with_previous,
                   monthly_budget, current_stats, previous_stats, anomalies,
                   budget_health, prev_period, reference_date, period, config,
                   faults, summary, report, sends, run_result, exit_code>>

\* transactions = client.get_transactions(start_str, end_str)
FetchCurrent ==
    /\ pc = "fetch"
    /\ IF "fetch" \in faults
       THEN /\ exception' = Some("backend error")
            /\ pc' = "except"
       ELSE /\ pc' = "analyze_current"
            /\ UNCHANGED exception
    /\ UNCHANGED <<transactions, prev_transactions, compare_with_previous,
                   monthly_budget, current_stats, previous_stats, anomalies,
                   budget_health, prev_period, reference_date, period, config,
                   faults, summary, report, sends, run_result, exit_code>>

\* the outcome of client.models.generate_content
LlmOutcome ==
    IF "llm_raises" \in faults THEN "raises"
    ELSE IF "llm_empty" \in faults THEN "empty"
    ELSE "text"

\* summarizer = GeminiSummarizer(api_key); summary =
\* summarizer.generate_weekly_summary(...); return the report dict
Summarize ==
    /\ pc = "done"
    /\ IF Truthy(config.gemini_api_key) /\ "gemini_init" \in faults
       THEN /\ exception' = Some("client error")
            /\ pc' = "except"
            /\ UNCHANGED <<summary, report>>
       ELSE LET text == generate_weekly_summary(
                            Truthy(config.gemini_api_key), LlmOutcome,
                            current_stats, anomalies, budget_health)
            IN  /\ summary' = Some(text)
                /\ report' = Some(<<<<"stats", current_stats>>,
                                    <<"anomalies", anomalies>>,
                                    <<"summary", text>>,
                                    <<"budget_health", budget_health>>,
                                    <<"previous_stats", previous_stats>>>>)
                /\ pc' = "report_ready"
                /\ UNCHANGED exception
    /\ UNCHANGED <<transactions, prev_transactions, compare_with_previous,
                   monthly_budget, current_stats, previous_stats, anomalies,
                   budget_health, prev_period, reference_date, period, config,
                   faults, sends, run_result, exit_code>>

\* success = self.send_report(report); return success
SendReport ==
    /\ pc = "report_ready"
    /\ IF ~DictHas(report[1], "stats")
       THEN /\ exception' = Some("KeyError")
            /\ pc' = "except"
            /\ UNCHANGED <<sends, run_result>>
       ELSE LET content == WeeklyReportContent(
                               DictGet(report[1], "stats", PyNone),
                               DictGet(report[1], "anomalies", PyNone),
                               DictGet(report[1], "summary", PyNone),
                               DictGet(report[1], "budget_health", PyNone))
                sent == send_report(config.discord_webhook, content,
                                    "post_report" \in faults)
            IN  /\ sends' = Append(sends, sent)
                /\ run_result' = Some(sent.ok)
                /\ pc' = "returned"
                /\ UNCHANGED exception
    /\ UNCHANGED <<transactions, prev_transactions, compare_with_previous,
                   monthly_budget, current_stats, previous_stats, anomalies,
                   budget_health, prev_period, reference_date, period, config,
                   faults, summary, report, exit_code>>

\* except Exception as e: try: notifier.send_report(error) except: pass;
\* return False
NotifyError ==
    /\ pc = "except"
    /\ sends' = Append(sends, send_report(config.discord_webhook,
                                          ErrorContent(exception[1]),
                                          "post_error" \in faults))
    /\ run_result' = Some(FALSE)
    /\ pc' = "returned"
    /\ UNCHANGED <<transactions, prev_transactions, compare_with_previous,
                   monthly_budget, current_stats, previous_stats, anomalies,
                   budget_health, prev_period, reference_date, period, config,
                   faults, exception, summary, report, exit_code>>

\* sys.exit(0 if success else 1)
Exit ==
    /\ pc = "returned"
    /\ exit_code' = Some(IF run_result[1] THEN 0 ELSE 1)
    /\ pc' = "exited"
    /\ UNCHANGED <<transactions, prev_transactions, compare_with_previous,
                   monthly_budget, current_stats, previous_stats, anomalies,
                   budget_health, prev_period, reference_date, period, config,
                   faults, exception, summary, report, sends, run_result>>

NextRun ==
    \/ ComputeWeekRange
    \/ CheckCredentials
    \/ Login
    \/ FetchCurrent
    \/ AnalyzeCurrent
    \/ AnalyzePrevious
    \/ DetectAnomalies
    \/ BudgetHealth
    \/ Summarize
    \/ SendReport
    \/ NotifyError
    \/ Exit

SpecRun == InitRun /\ [][NextRun]_vars

----------------------------------------------------------------------------
(* Properties.  The definitions below restate the documented behaviour     *)
(* without using the operators of the analyzer above.                      *)

StatsReady == pc # "analyze_current"

AnomaliesReady == pc \in {"budget", "done"}

TextOf(v) == IF v = PyNone THEN << >> ELSE v[1]

\* s contains "transfer" with each letter in either case
HasTransferWord(s) ==
    \E i \in 1..(Len(s) - 7) :
        \A k \in 1..8 : s[i + k - 1] \in {S_transfer[k], S_TRANSFER[k]}

DocumentedTransfer(t) ==
    \/ t.is_transfer = TRUE
    \/ HasTransferWord(TextOf(t.payee))
    \/ HasTransferWord(TextOf(t.category))

Surviving == SelectSeq(transactions, LAMBDA t : ~DocumentedTransfer(t))

SurvivingExpenses == SelectSeq(Surviving, LAMBDA t : t.amount < 0)

DocumentedUncategorized(t) ==
    t.category \in {PyNone, Some(<< >>), Some(UNCATEGORIZED)}

AmountsOf(txns) == [i \in 1..Len(txns) |-> Abs(txns[i].amount)]

CountWhere(s, P(_)) == Cardinality({i \in 1..Len(s) : P(s[i])})

AnomaliesOfType(type) == SelectSeq(anomalies, LAMBDA a : a.type = type)

C2_SpikeDrop ==
    AnomaliesReady =>
        LET spikes == AnomaliesOfType("spike")
            drops == AnomaliesOfType("drop")
            given == previous_stats # PyNone
            cur == current_stats.total_expense
            prev == previous_stats[1].total_expense
            positive == given /\ prev > 0
        IN  /\ Len(spikes) =
                 (IF positive /\ (cur - prev) * 100 > 30 * prev THEN 1 ELSE 0)
            /\ Len(drops) =
                 (IF positive /\ (cur - prev) * 100 < (-30) * prev THEN 1 ELSE 0)
            /\ \A i \in 1..Len(spikes) : spikes[i].severity = "high"
            /\ \A i \in 1..Len(drops) : drops[i].severity = "low"
            /\ ~(Len(spikes) > 0 /\ Len(drops) > 0)
            /\ (positive /\ (cur - prev) * 10 \in {3 * prev, (-3) * prev})
                   => (spikes = << >> /\ drops = << >>)

C2_Witness ==
    /\ pc = "done"
    /\ Len(AnomaliesOfType("spike")) = 1
    /\ current_stats.total_expense = 131
    /\ previous_stats[1].total_expense = 100

\* the amount recorded for category c in a breakdown, 0 when c is no key
AmountIn(breakdown, c) ==
    LET items == {i \in 1..Len(breakdown) : breakdown[i][1] = c}
    IN  IF items = {} THEN 0 ELSE breakdown[CHOOSE i \in items : TRUE][2]

KeysOf(breakdown) == {breakdown[i][1] : i \in 1..Len(breakdown)}

\* C3: a medium "category_spike" is emitted for category c exactly when
\* previous statistics are given, c is a key of the current breakdown, the
\* previous amount of c is > 0 and the current amount > previous * 1.30;
\* never for a category absent from the previous period, never for a
\* decrease, at most once per category.
C3_CategorySpike ==
    AnomaliesReady =>
        LET found == AnomaliesOfType("category_spike")
            given == previous_stats # PyNone
            cur == current_stats.category_breakdown
            prev == previous_stats[1].category_breakdown
            Due(c) == /\ given
                      /\ c \in KeysOf(cur)
                      /\ AmountIn(prev, c) > 0
                      /\ AmountIn(cur, c) * 100 > AmountIn(prev, c) * 130
            For(c) == {i \in 1..Len(found) : found[i].data.category = c}
        IN  /\ \A i \in 1..Len(found) :
                   /\ found[i].severity = "medium"
                   /\ found[i].data.category \in KeysOf(cur)
            /\ \A c \in KeysOf(cur) :
                   Cardinality(For(c)) = (IF Due(c) THEN 1 ELSE 0)
            /\ \A i \in 1..Len(found) :
                   LET c == found[i].data.category
                   IN  /\ c \in KeysOf(prev)
                       /\ AmountIn(cur, c) > AmountIn(prev, c)

C3_Witness ==
    /\ pc = "done"
    /\ Len(AnomaliesOfType("category_spike")) = 1
    /\ AnomaliesOfType("category_spike")[1].data.category = S_Food
    /\ S_Rent \in KeysOf(current_stats.category_breakdown)
    /\ S_Rent \notin KeysOf(previous_stats[1].category_breakdown)

\* the absolute amount in cents of an entry whose amount is in dollars
EntryCents(e) == (Abs(e.amount[1]) * 100) \div e.amount[2]

\* the number of elements of s that are >= v
AtLeast(s, v) == Cardinality({i \in 1..Len(s) : s[i] >= v})

Min(a, b) == IF a <= b THEN a ELSE b

\* C4: top_transactions has at least 5 entries when at least 5 surviving
\* expenses exist; when 5 or more expenses exceed $20 it holds exactly the
\* expenses above $20, otherwise exactly the 5 largest expenses (all of
\* them if fewer); its entries are in descending order of absolute amount.
C4_TopTransactions ==
    StatsReady =>
        LET E == AmountsOf(SurvivingExpenses)
            top == current_stats.top_transactions
            T == [i \in 1..Len(top) |-> EntryCents(top[i])]
            big == Cardinality({i \in 1..Len(E) : E[i] > 2000})
            vals == Range(E) \cup Range(T)
        IN  /\ Len(E) >= 5 => Len(T) >= 5
            /\ \A i \in 1..Len(T) : \A j \in i..Len(T) : T[i] >= T[j]
            /\ \A i \in 1..Len(top) :
                   \E j \in 1..Len(SurvivingExpenses) :
                       /\ SurvivingExpenses[j].date = top[i].date
                       /\ SurvivingExpenses[j].payee = top[i].payee
                       /\ SurvivingExpenses[j].amount * top[i].amount[2]
                              = top[i].amount[1] * 100
            /\ IF big >= 5
               THEN /\ \A i \in 1..Len(T) : T[i] > 2000
                    /\ Len(T) = big
                    /\ \A v \in vals : v > 2000 => AtLeast(T, v) = AtLeast(E, v)
               ELSE /\ Len(T) = Min(5, Len(E))
                    /\ \A v \in vals : AtLeast(T, v) = Min(5, AtLeast(E, v))

C4_Witness ==
    /\ pc = "done"
    /\ Len(SurvivingExpenses) = 6
    /\ Cardinality({i \in 1..6 : SurvivingExpenses[i].amount < -2000}) = 4
    /\ Len(current_stats.top_transactions) = 5
    /\ EntryCents(current_stats.top_transactions[5]) = 2000

\* the breakdown key the documentation gives an expense
DocumentedCategory(t) ==
    IF DocumentedUncategorized(t) THEN UNCATEGORIZED_LABEL ELSE t.category[1]

\* C5: the values of category_breakdown sum to total_expense; each value is
\* the sum of the absolute amounts of the surviving negative-amount
\* transactions of its category, positive amounts contribute nowhere.
C5_BreakdownSum ==
    StatsReady =>
        LET bd == current_stats.category_breakdown
            SumFor(c) ==
                SumSeq(AmountsOf(SelectSeq(SurvivingExpenses,
                                           LAMBDA t : DocumentedCategory(t) = c)))
        IN  /\ SumSeq([i \in 1..Len(bd) |-> bd[i][2]])
                   = current_stats.total_expense
            /\ current_stats.total_expense = SumSeq(AmountsOf(SurvivingExpenses))
            /\ \A i \in 1..Len(bd) : bd[i][2] = SumFor(bd[i][1])
            /\ Cardinality(KeysOf(bd)) = Len(bd)
            /\ KeysOf(bd) = {DocumentedCategory(t) : t \in Range(SurvivingExpenses)}

C5_Witness ==
    /\ pc = "done"
    /\ Len(current_stats.category_breakdown) = 2
    /\ current_stats.total_income > 0
    /\ current_stats.total_expense = 1800

\* C6: uncategorized_count is the number of surviving expenses whose
\* category is absent, empty or "Uncategorized"; incomes are not counted;
\* the counted amounts are summed under the uncategorized label (no
\* category of the inputs is itself named like that label).
C6_UncategorizedCount ==
    StatsReady =>
        LET counted == SelectSeq(SurvivingExpenses, DocumentedUncategorized)
            bd == current_stats.category_breakdown
        IN  /\ current_stats.uncategorized_count = Len(counted)
            /\ AmountIn(bd, UNCATEGORIZED_LABEL) = SumSeq(AmountsOf(counted))
            /\ (UNCATEGORIZED_LABEL \in KeysOf(bd)) = (Len(counted) > 0)

C6_Witness ==
    /\ pc = "done"
    /\ current_stats.uncategorized_count = 2
    /\ \E i \in 1..Len(Surviving) :
           Surviving[i].amount > 0 /\ Surviving[i].category = PyNone
    /\ AmountIn(current_stats.category_breakdown, UNCATEGORIZED_LABEL) = 350

\* the date string read as the number YYYYMMDD
DateNumber(d) ==
    d[1] * 10000000 + d[2] * 1000000 + d[3] * 100000 + d[4] * 10000
    + d[6] * 1000 + d[7] * 100 + d[9] * 10 + d[10]

\* C7: when no transaction survives the transfer filter the statistics have
\* empty week_start and week_end, zero numeric fields and empty
\* collections; otherwise week_start and week_end are the earliest and the
\* latest date of the surviving transactions.
C7_EmptyPolicy ==
    StatsReady =>
        IF Surviving = << >>
        THEN /\ current_stats.week_start = << >>
             /\ current_stats.week_end = << >>
             /\ current_stats.total_income = 0
             /\ current_stats.total_expense = 0
             /\ current_stats.net_change = 0
             /\ current_stats.uncategorized_count = 0
             /\ current_stats.daily_average = 0
             /\ current_stats.category_breakdown = << >>
             /\ current_stats.top_expenses = << >>
             /\ current_stats.top_transactions = << >>
             /\ current_stats.top_income_transactions = << >>
             /\ current_stats.large_transactions = << >>
             /\ current_stats.simplified_transactions = << >>
        ELSE LET dates == {Surviving[i].date : i \in 1..Len(Surviving)}
             IN  /\ current_stats.week_start \in dates
                 /\ current_stats.week_end \in dates
                 /\ \A d \in dates :
                        /\ DateNumber(current_stats.week_start) <= DateNumber(d)
                        /\ DateNumber(d) <= DateNumber(current_stats.week_end)

C7_Witness ==
    /\ pc = "done"
    /\ Len(transactions) = 3
    /\ Surviving = << >>
    /\ current_stats.week_start = << >>
    /\ current_stats.daily_average = 0

\* a budget mapping with at least one category is configured
BudgetConfigured == monthly_budget # PyNone /\ monthly_budget[1] # << >>

\* the sum of the configured category budgets
ConfiguredTotal ==
    SumSeq([i \in 1..Len(monthly_budget[1]) |-> monthly_budget[1][i][2]])

\* C8: with a non-empty budget whose total is > 0, projected_monthly is
\* 4 * total_expense, remaining is total_budget - projected_monthly, and
\* the status is "healthy" iff projected/total < 0.8, "warning" iff
\* 0.8 <= ratio < 1.0, "critical" iff ratio >= 1.0; without a budget the
\* status is "unknown".
C8_BudgetStatus ==
    pc = "done" =>
        LET h == budget_health
            total == ConfiguredTotal
            projected == 4 * current_stats.total_expense
        IN  /\ (BudgetConfigured /\ total > 0) =>
                   /\ h.projected_monthly = projected
                   /\ h.total_budget = total
                   /\ h.remaining = total - projected
                   /\ h.status \in {"healthy", "warning", "critical"}
                   /\ (h.status = "healthy") = (projected * 10 < 8 * total)
                   /\ (h.status = "warning") =
                          (8 * total <= projected * 10 /\ projected < total)
                   /\ (h.status = "critical") = (projected >= total)
            /\ ~BudgetConfigured => h.status = "unknown"

C8_Witness ==
    /\ pc = "done"
    /\ BudgetConfigured
    /\ ConfiguredTotal = 100
    /\ current_stats.total_expense = 20
    /\ budget_health.status = "warning"
    /\ budget_health.remaining = 20

\* C9: with a configured budget whose category budgets sum to 0 the health
\* ratio is 0 whatever total_expense is, so the status is "healthy" even
\* when the projection is positive and remaining negative.
C9_ZeroBudget ==
    (pc = "done" /\ BudgetConfigured /\ ConfiguredTotal = 0) =>
        /\ budget_health.health_ratio[1] = 0
        /\ budget_health.health_ratio[2] > 0
        /\ budget_health.status = "healthy"
        /\ budget_health.total_budget = 0
        /\ budget_health.remaining = -(4 * current_stats.total_expense)

C9_Witness ==
    /\ pc = "done"
    /\ BudgetConfigured
    /\ ConfiguredTotal = 0
    /\ budget_health.projected_monthly > 0
    /\ budget_health.remaining < 0
    /\ budget_health.status = "healthy"

\* the position of the dates of the inputs in the calendar of 2024:
\* Feb 27, Feb 28, Feb 29, Mar 1, Mar 2
DayIndex(d) ==
    CASE d = D_0227 -> 0
      [] d = D_0229 -> 2
      [] d = D_0302 -> 4

\* C10: with at least one surviving transaction, daily_average is
\* total_expense divided, truncating, by the days spanned by the surviving
\* transactions, (latest - earliest) + 1 >= 1; transfers filtered out do
\* not widen the span.
C10_DailyAverage ==
    (StatsReady /\ Surviving # << >>) =>
        LET idx == {DayIndex(Surviving[i].date) : i \in 1..Len(Surviving)}
            first == CHOOSE a \in idx : \A b \in idx : a <= b
            last == CHOOSE a \in idx : \A b \in idx : a >= b
            days == (last - first) + 1
            total == SumSeq(AmountsOf(SurvivingExpenses))
            avg == current_stats.daily_average
        IN  /\ days >= 1
            /\ avg >= 0
            /\ avg * days <= total
            /\ total < (avg + 1) * days

C10_Witness ==
    /\ pc = "done"
    /\ \E i \in 1..Len(transactions) :
           /\ DocumentedTransfer(transactions[i])
           /\ transactions[i].date = D_0227
    /\ {Surviving[i].date : i \in 1..Len(Surviving)} = {D_0229, D_0302}
    /\ current_stats.total_expense = 1550
    /\ current_stats.daily_average = 516

C14_UncategorizedCluster ==
    AnomaliesReady =>
        LET found == AnomaliesOfType("uncategorized_cluster")
            count == Len(SelectSeq(SurvivingExpenses, DocumentedUncategorized))
        IN  /\ Len(found) = (IF count > 5 THEN 1 ELSE 0)
            /\ \A i \in 1..Len(found) :
                   /\ found[i].severity = "medium"
                   /\ found[i].data.count = count
            /\ Len(anomalies) = Len(found)
                   + Len(AnomaliesOfType("large_transaction"))
                   + Len(AnomaliesOfType("spike"))
                   + Len(AnomaliesOfType("drop"))
                   + Len(AnomaliesOfType("category_spike"))

C14_Witness ==
    /\ pc = "done"
    /\ current_stats.uncategorized_count = 6
    /\ Len(AnomaliesOfType("uncategorized_cluster")) = 1
    /\ Len(AnomaliesOfType("large_transaction")) = 1
    /\ Len(AnomaliesOfType("spike")) = 1
    /\ Len(AnomaliesOfType("category_spike")) = 1

\* the days from Monday 12 February to Sunday 17 March 2024 in order, one
\* week a row: every seventh day is a Sunday
Calendar ==
    <<
      <<2,0,2,4,"-",0,2,"-",1,2>>, <<2,0,2,4,"-",0,2,"-",1,3>>, <<2,0,2,4,"-",0,2,"-",1,4>>, <<2,0,2,4,"-",0,2,"-",1,5>>,
      <<2,0,2,4,"-",0,2,"-",1,6>>, <<2,0,2,4,"-",0,2,"-",1,7>>, <<2,0,2,4,"-",0,2,"-",1,8>>,
      <<2,0,2,4,"-",0,2,"-",1,9>>, <<2,0,2,4,"-",0,2,"-",2,0>>, <<2,0,2,4,"-",0,2,"-",2,1>>, <<2,0,2,4,"-",0,2,"-",2,2>>,
      <<2,0,2,4,"-",0,2,"-",2,3>>, <<2,0,2,4,"-",0,2,"-",2,4>>, <<2,0,2,4,"-",0,2,"-",2,5>>,
      <<2,0,2,4,"-",0,2,"-",2,6>>, <<2,0,2,4,"-",0,2,"-",2,7>>, <<2,0,2,4,"-",0,2,"-",2,8>>, <<2,0,2,4,"-",0,2,"-",2,9>>,
      <<2,0,2,4,"-",0,3,"-",0,1>>, <<2,0,2,4,"-",0,3,"-",0,2>>, <<2,0,2,4,"-",0,3,"-",0,3>>,
      <<2,0,2,4,"-",0,3,"-",0,4>>, <<2,0,2,4,"-",0,3,"-",0,5>>, <<2,0,2,4,"-",0,3,"-",0,6>>, <<2,0,2,4,"-",0,3,"-",0,7>>,
      <<2,0,2,4,"-",0,3,"-",0,8>>, <<2,0,2,4,"-",0,3,"-",0,9>>, <<2,0,2,4,"-",0,3,"-",1,0>>,
      <<2,0,2,4,"-",0,3,"-",1,1>>, <<2,0,2,4,"-",0,3,"-",1,2>>, <<2,0,2,4,"-",0,3,"-",1,3>>, <<2,0,2,4,"-",0,3,"-",1,4>>,
      <<2,0,2,4,"-",0,3,"-",1,5>>, <<2,0,2,4,"-",0,3,"-",1,6>>, <<2,0,2,4,"-",0,3,"-",1,7>>
    >>

\* the position of a date string in the calendar
DayNumber(str) == CHOOSE i \in 1..Len(Calendar) : Calendar[i] = str

IsSunday(n) == n % 7 = 0

ReferenceDay == DayNumber(strftime(reference_date))

CredentialsSet ==
    /\ config.actual_url \notin {PyNone, Some(<< >>)}
    /\ config.actual_password \notin {PyNone, Some(<< >>)}

\* every date the backend returned is a day of the calendar
DatesWellFormed ==
    /\ \A i \in 1..Len(transactions) :
           transactions[i].date \in Range(Calendar)
    /\ compare_with_previous =>
           \A i \in 1..Len(prev_transactions) :
               prev_transactions[i].date \in Range(Calendar)

\* nothing before the summary fails: credentials, login, the fetches and the
\* analysis
AnalysisSucceeds ==
    /\ CredentialsSet
    /\ "login" \notin faults
    /\ "fetch" \notin faults
    /\ compare_with_previous => "fetch_previous" \notin faults
    /\ DatesWellFormed

\* the run is past the request for the summary
SummaryRequested ==
    /\ AnalysisSucceeds
    /\ pc \in {"report_ready", "returned", "exited", "except"}

NoApiKey == config.gemini_api_key \in {PyNone, Some(<< >>)}

\* no client is available, or the client is built and the LLM call raises
LlmUnavailable ==
    \/ NoApiKey
    \/ "llm_raises" \in faults /\ "gemini_init" \notin faults

\* C12: whenever no API key or client is available or the LLM call raises,
\* generate_weekly_summary returns the text of the fallback summary of the
\* statistics and the anomalies, the failure is not propagated to the caller,
\* and the report is delivered with that text.
C12_FallbackSummary ==
    (SummaryRequested /\ LlmUnavailable) =>
        /\ pc \in {"report_ready", "returned", "exited"}
        /\ exception = PyNone
        /\ summary # PyNone
        /\ summary[1] = fallback_summary(current_stats, anomalies)
        /\ summary[1] # << >>
        /\ pc \in {"returned", "exited"} =>
               /\ Len(sends) = 1
               /\ sends[1].content = summary[1]

\* an API key is set, the LLM call raised, the week has a high anomaly, and
\* the fallback text was posted and accepted
C12_Witness ==
    /\ pc = "returned"
    /\ ~NoApiKey
    /\ "llm_raises" \in faults
    /\ \E i \in 1..Len(anomalies) : anomalies[i].severity = "high"
    /\ Len(sends) = 1
    /\ sends[1].posted
    /\ sends[1].ok
    /\ sends[1].content[Len(sends[1].content)][1] = "attention"

\* a call of the notifier carries the error message, not the weekly report
IsErrorMessage(sent) == sent.content[1][1] = "report generation failed"

WebhookSet == config.discord_webhook \notin {PyNone, Some(<< >>)}

\* the weekly report itself was posted and the webhook accepted it
ReportAccepted ==
    /\ WebhookSet
    /\ "post_report" \notin faults
    /\ \E i \in 1..Len(sends) : ~IsErrorMessage(sends[i]) /\ sends[i].posted

\* the outcomes listed as failures
ListedFailure ==
    \/ ~CredentialsSet
    \/ "login" \in faults
    \/ exception # PyNone
    \/ ~WebhookSet
    \/ "post_report" \in faults

\* C15: the process exits with code 0 if and only if run returned True, and
\* run returns True if and only if the weekly report itself, not an error
\* message, was accepted by the webhook POST; with missing credentials, a
\* login failure, any exception, a missing webhook URL or a failed POST the
\* exit code is 1.
C15_ExitCode ==
    /\ pc \in {"returned", "exited"} =>
           /\ run_result \in {Some(TRUE), Some(FALSE)}
           /\ run_result = Some(TRUE) <=> ReportAccepted
    /\ pc = "exited" =>
           /\ exit_code \in {Some(0), Some(1)}
           /\ exit_code = Some(0) <=> run_result = Some(TRUE)
           /\ ListedFailure => exit_code = Some(1)

\* the weekly report was posted and accepted, and the process exited with 0
C15_Witness ==
    /\ pc = "exited"
    /\ exit_code = Some(0)
    /\ Len(sends) = 1
    /\ ~IsErrorMessage(sends[1])
    /\ sends[1].posted
    /\ sends[1].ok

\* C11: a failure at any stage of run (missing backend credentials, login,
\* transaction fetch, analysis, summarisation or report delivery) still
\* results in an attempt to send an error message to the delivery channel
\* before run returns False, and run returns instead of raising even when
\* the error notification fails too.
C11_ErrorNotified ==
    pc \in {"returned", "exited"} =>
        /\ run_result \in {Some(TRUE), Some(FALSE)}
        /\ run_result = Some(FALSE) =>
               \E i \in 1..Len(sends) : IsErrorMessage(sends[i])

====
